---------------------------- MODULE Spec2Model ----------------------------
(***************************************************************************)
(* u2f-hid-rs: the single-shot Result Callback (src/util.rs, OnceCallback) *)
(* and the Operation Orchestrator (src/linux/mod.rs, PlatformManager) with *)
(* its cancellable Run-Loop bodies.                                        *)
(*                                                                         *)
(* Two state machines share this module:                                   *)
(*   Spec / FairSpec  the orchestrator: one caller thread (&mut self       *)
(*                    serialises register/sign/send_apdu/cancel) and one   *)
(*                    background body per started operation;               *)
(*   SpecCB           OnceCallback alone: several threads calling call()   *)
(*                    on handles cloned from one callback.                 *)
(*                                                                         *)
(* RunLoop, DeviceMap, Monitor and the u2f exchange functions are used by  *)
(* src/linux/mod.rs but their code is not part of the sources at hand;     *)
(* they are modelled from their documented contracts.                      *)
(*                                                                         *)
(* Time is in milliseconds and advances in steps of Quantum.  A sleep     *)
(* lasts exactly RetryInterval, a device exchange between 0 and            *)
(* MaxExchange, every other step of a thread takes no time.                *)
(***************************************************************************)
EXTENDS Integers, Sequences, FiniteSets, TLC

\* ------------------------------------------------------------------ bounds
MaxOps == 2            \* operations started on one PlatformManager
NumDevices == 3        \* device identities the Monitor can report
MaxQueue == 1          \* Monitor events pending between two drains
MaxTimeoutTicks == 2   \* largest timeout, in Quantum steps
MaxExchangeTicks == 1  \* worst-case device exchange, in Quantum steps
NumThreads == 2        \* SpecCB: threads calling OnceCallback::call
MaxHandles == 2        \* SpecCB: handles cloned from one OnceCallback
MaxOpened == 3         \* SpecReg: device handles one DeviceMap opens in its life

\* --------------------------------------------------------------- constants
RetryInterval == 100   \* thread::sleep(Duration::from_millis(100))

Quantum == RetryInterval \div 2
MaxExchange == MaxExchangeTicks * Quantum
Timeouts == {k * Quantum : k \in 1..MaxTimeoutTicks}
MaxTimeout == MaxTimeoutTicks * Quantum
\* The end-to-end scenario: register(timeout = 500, ..).
EndToEndTimeout == 5 * RetryInterval
AgeCap == MaxTimeout + 4 * RetryInterval + NumDevices * MaxExchange

Ops == 1..MaxOps
Devices == 1..NumDevices
Threads == 1..NumThreads
None == 0

Min(a, b) == IF a < b THEN a ELSE b

\* ----------------------------------------------------------------- results
\* io::Result<Vec<u8>>: a success payload (here: which device answered) or
\* an io::Error (here: its message).
NoResult == [ok |-> FALSE, dev |-> 0, msg |-> "none"]
Ok(d) == [ok |-> TRUE, dev |-> d, msg |-> ""]
Err(m) == [ok |-> FALSE, dev |-> 0, msg |-> m]
\* The Err a single device's exchange returns.
DeviceErr(d) == [ok |-> FALSE, dev |-> d, msg |-> "device error"]
\* The Err of Monitor::new().
MonitorErr == Err("monitor error")

Kinds == {"register", "sign", "send_apdu"}

VARIABLES
    \* PlatformManager and its caller
    thread,      \* PlatformManager.thread: None or the operation whose RunLoop it holds
    callerPc,    \* where the caller's thread is
    joining,     \* the RunLoop whose cancel() the caller is blocked in, or None
    nOps,        \* operations invoked so far
    wasRunning,  \* history: the body of `joining' was running when cancel() took it
    kind,        \* per operation: which closure runs (register / sign / send_apdu)
    timeout,     \* per operation: the timeout its RunLoop was given
    callback,    \* per operation: its OnceCallback slot
    \* RunLoop and body of each operation
    cancelReq,   \* RunLoop: cancellation requested
    age,         \* RunLoop: time since it was constructed
    pc,          \* body: position
    devices,     \* body: DeviceMap (identities held)
    events,      \* body: the Monitor's pending events
    todo,        \* body: devices of this pass not yet tried
    tried,       \* history: devices whose exchange failed in this pass
    cur,         \* body: device being exchanged with
    timer,       \* body: time left of the sleep / of the worst-case exchange
    sawDead,     \* history: why alive() was false when the body saw it so
    touched,     \* history: the DeviceMap has held a device
    heldSince,   \* history: the pass in which the DeviceMap first held a device
    passes,      \* history: retry passes begun since the RunLoop's start
    open,        \* body: identities whose device handle is open
    \* SpecCB
    cbSlots,     \* the Arc<Mutex<Option<Callback>>> slots
    cbHandles,   \* each OnceCallback handle's slot
    thPc,        \* per thread: position in call()
    thSlot,      \* per thread: the slot it is calling on
    thRv,        \* per thread: the result it passes
    cbFirst,     \* history: the result of the first call() to acquire the lock
    cbReturned,  \* history: some call() has returned
    \* SpecReg
    registry,    \* one DeviceMap: its identities, their Devices, the handles opened
    regLive,     \* the RunLoop body owning the DeviceMap has not exited
    regLast      \* history: per identity, the last event processed for it

mainVars == <<thread, callerPc, joining, wasRunning, nOps, kind, timeout,
              callback, cancelReq, age, pc, devices, events, todo, tried, cur,
              timer, sawDead, touched, heldSince, passes, open>>
cbVars == <<cbSlots, cbHandles, thPc, thSlot, thRv, cbFirst, cbReturned>>
regVars == <<registry, regLive, regLast>>
vars == <<mainVars, cbVars, regVars>>
callerVars == <<thread, callerPc, joining, wasRunning, nOps>>
bodyVars == <<age, pc, devices, events, todo, tried, cur, timer, sawDead,
              touched, heldSince, passes, open>>

\* The operations whose body is running.
Running == {o \in Ops : pc[o] \notin {"none", "exited"}}

\* ------------------------------------------------------------ OnceCallback
\* OnceCallback::new: the slot holds the handler.
NewSlot == [handler |-> TRUE, invoked |-> 0, received |-> NoResult]

\* The body of OnceCallback::call under the lock:
\*   if let Some(cb) = cb.take() { cb.call(rv); }
\* Faulty variant: the handler is called through the slot without being taken.
OnceCall_NoTake(c, rv) ==
    [c EXCEPT !.invoked = @ + 1, !.received = rv]

OnceCall(c, rv) ==
    IF c.handler
    THEN [c EXCEPT !.handler = FALSE, !.invoked = @ + 1, !.received = rv]
    ELSE c


\* ------------------------------------------------- collaborators' contracts
\* RunLoop: the alive predicate handed to the body: true while neither
\* cancellation has been requested nor the deadline has elapsed.
Alive(o) == ~cancelReq[o] /\ age[o] < timeout[o]

\* Why alive() is false.
DeadCause(o) ==
    IF ~cancelReq[o] THEN "deadline"
    ELSE IF age[o] < timeout[o] THEN "cancel" ELSE "both"

\* RunLoop::cancel, first half: request cancellation.
RunLoopCancelRequest(o) == cancelReq' = [cancelReq EXCEPT ![o] = TRUE]

\* RunLoop::cancel, second half: the join; it returns once the body has exited.
RunLoopJoined(o) == pc[o] = "exited"

\* Hotplug events of the Monitor.
Events == [op : {"Add", "Remove"}, id : Devices]

\* DeviceMap::process_event: Add stores the device under its identity,
\* Remove drops it; removing an absent identity does nothing.
process_event(ds, e) ==
    IF e.op = "Add" THEN ds \cup {e.id} ELSE ds \ {e.id}

\* for event in monitor.events() { devices.process_event(event); }
RECURSIVE ProcessEvents(_, _)
ProcessEvents(ds, es) ==
    IF es = <<>> THEN ds
    ELSE ProcessEvents(process_event(ds, Head(es)), Tail(es))

\* The open handles once the DeviceMap went from the identities `before' to
\* `after': a Device is opened when it is stored and closed when it is
\* removed from the map and dropped.
HandlesAfter(hs, before, after) == (hs \ (before \ after)) \cup (after \ before)

\* The devices already attached, as the Monitor first reports them.
RECURSIVE Enumerate(_)
Enumerate(present) ==
    IF present = {} THEN <<>>
    ELSE LET d == CHOOSE x \in present : \A y \in present : x <= y
         IN  <<[op |-> "Add", id |-> d]>> \o Enumerate(present \ {d})

\* ------------------------------------------------------------- the caller
\* What the three closures deliver.  register, sign and send_apdu share one
\* skeleton; they differ in the exchange function called per device.
ExchangePayload(k, d) ==
    CASE k = "register" -> Ok(d)      \* super::u2f_register(device, ..)
      [] k = "sign" -> Ok(d)          \* super::u2f_sign(device, ..)
      [] k = "send_apdu" -> Ok(d)     \* super::send_apdu(device, ..)

\* Faulty variant: a message of its own for each cause.
LoopExitResult_Split(o) ==
    IF cancelReq[o] THEN Err("cancelled") ELSE Err("timed out")

LoopExitResult(o) ==
    CASE kind[o] = "register" -> Err("cancelled or timed out")
      [] kind[o] = "sign" -> Err("cancelled or timed out")
      [] kind[o] = "send_apdu" -> Err("cancelled or timed out")

RunLoopErr(k) ==
    CASE k = "register" -> Err("couldn't create runloop")
      [] k = "sign" -> Err("couldn't create runloop")
      [] k = "send_apdu" -> Err("couldn't create runloop")

\* callback.call(rv) on the callback of operation o.
Deliver(o, rv) == callback' = [callback EXCEPT ![o] = OnceCall(callback[o], rv)]

\* self.cancel() as the first statement of register/sign/send_apdu:
\*   if let Some(thread) = self.thread.take() { thread.cancel(); }
\* Faulty variant: the prior RunLoop is not cancelled.
AbortPrior_Skip ==
    /\ callerPc' = "op_spawn"
    /\ UNCHANGED <<thread, cancelReq, joining, wasRunning>>

AbortPrior ==
    IF thread # None
    THEN /\ thread' = None
         /\ RunLoopCancelRequest(thread)
         /\ joining' = thread
         /\ wasRunning' = (thread \in Running)
         /\ callerPc' = "op_join"
    ELSE /\ callerPc' = "op_spawn"
         /\ UNCHANGED <<thread, cancelReq, joining, wasRunning>>

\* register / sign / send_apdu up to the blocking join of self.cancel(); the
\* closure captures the operation's inputs.
StartOp(k, t) ==
    /\ callerPc = "idle"
    /\ nOps < MaxOps
    /\ nOps' = nOps + 1
    /\ kind' = [kind EXCEPT ![nOps + 1] = k]
    /\ timeout' = [timeout EXCEPT ![nOps + 1] = t]
    /\ AbortPrior
    /\ UNCHANGED <<callback, bodyVars, cbVars, regVars>>

Register(t) == StartOp("register", t)
Sign(t) == StartOp("sign", t)
SendApdu(t) == StartOp("send_apdu", t)

\* self.cancel() inside an operation returns: the prior body has exited.
\* Faulty variant: the operation goes on without the join.
OpJoined_NoWait ==
    /\ callerPc = "op_join"
    /\ callerPc' = "op_spawn"
    /\ UNCHANGED <<thread, joining, wasRunning, nOps, kind, timeout, callback,
                   cancelReq, bodyVars, cbVars, regVars>>

OpJoined ==
    /\ callerPc = "op_join"
    /\ RunLoopJoined(joining)
    /\ callerPc' = "op_spawn"
    /\ UNCHANGED <<thread, joining, wasRunning, nOps, kind, timeout, callback,
                   cancelReq, bodyVars, cbVars, regVars>>

\* RunLoop::new(..) returned Ok: the body runs, self.thread = Some(thread).
SpawnOk ==
    /\ callerPc = "op_spawn"
    /\ pc' = [pc EXCEPT ![nOps] = "new"]
    /\ thread' = nOps
    /\ callerPc' = "idle"
    /\ joining' = None
    /\ wasRunning' = FALSE
    /\ UNCHANGED <<nOps, kind, timeout, callback, cancelReq, age, devices,
                   events, todo, tried, cur, timer, sawDead, touched,
                   heldSince, passes, open, cbVars, regVars>>

\* RunLoop::new(..) returned Err: the closure is dropped, try_or! calls
\* cbc.call(Err(..)) and returns; self.thread is not assigned.
\* Faulty variant: the failure is dropped.
SpawnFail_Silent ==
    /\ callerPc = "op_spawn"
    /\ kind' = [kind EXCEPT ![nOps] = "none"]
    /\ timeout' = [timeout EXCEPT ![nOps] = 0]
    /\ callerPc' = "idle"
    /\ joining' = None
    /\ wasRunning' = FALSE
    /\ UNCHANGED <<thread, nOps, callback, cancelReq, bodyVars, cbVars,
                   regVars>>

SpawnFail ==
    /\ callerPc = "op_spawn"
    /\ Deliver(nOps, RunLoopErr(kind[nOps]))
    /\ kind' = [kind EXCEPT ![nOps] = "none"]
    /\ timeout' = [timeout EXCEPT ![nOps] = 0]
    /\ callerPc' = "idle"
    /\ joining' = None
    /\ wasRunning' = FALSE
    /\ UNCHANGED <<thread, nOps, cancelReq, bodyVars, cbVars, regVars>>

\* PlatformManager::cancel up to the blocking join; without a RunLoop it
\* does nothing.
Cancel ==
    /\ callerPc = "idle"
    /\ IF thread # None
       THEN /\ thread' = None
            /\ RunLoopCancelRequest(thread)
            /\ joining' = thread
            /\ wasRunning' = (thread \in Running)
            /\ callerPc' = "cancel_join"
       ELSE UNCHANGED <<thread, cancelReq, joining, wasRunning, callerPc>>
    /\ UNCHANGED <<nOps, kind, timeout, callback, bodyVars, cbVars, regVars>>

\* PlatformManager::cancel returns ("This blocks."): thread.cancel() joined.
\* Faulty variant: cancel() returns without waiting for the body.
CancelReturn_NoWait ==
    /\ callerPc = "cancel_join"
    /\ callerPc' = "idle"
    /\ joining' = None
    /\ wasRunning' = FALSE
    /\ UNCHANGED <<thread, nOps, kind, timeout, callback, cancelReq, bodyVars,
                   cbVars, regVars>>

CancelReturn ==
    /\ callerPc = "cancel_join"
    /\ RunLoopJoined(joining)
    /\ callerPc' = "idle"
    /\ joining' = None
    /\ wasRunning' = FALSE
    /\ UNCHANGED <<thread, nOps, kind, timeout, callback, cancelReq, bodyVars,
                   cbVars, regVars>>

\* --------------------------------------------------------------- the body
\* The closure returns: what it captured, its DeviceMap and its Monitor are
\* dropped (every Device still in the map is closed) and the thread ends.
\* todo and tried keep what the last pass had not reached and what it had
\* tried in vain, passes how many passes there were.
\* Faulty variant: the Devices are forgotten, their handles stay open.
Exit_Leak(o) ==
    /\ pc' = [pc EXCEPT ![o] = "exited"]
    /\ kind' = [kind EXCEPT ![o] = "none"]
    /\ timeout' = [timeout EXCEPT ![o] = 0]
    /\ devices' = [devices EXCEPT ![o] = {}]
    /\ events' = [events EXCEPT ![o] = <<>>]
    /\ cur' = [cur EXCEPT ![o] = None]
    /\ timer' = [timer EXCEPT ![o] = 0]
    /\ age' = [age EXCEPT ![o] = 0]
    /\ touched' = [touched EXCEPT ![o] = FALSE]
    /\ heldSince' = [heldSince EXCEPT ![o] = 0]
    /\ UNCHANGED <<passes, open>>

Exit(o) ==
    /\ pc' = [pc EXCEPT ![o] = "exited"]
    /\ kind' = [kind EXCEPT ![o] = "none"]
    /\ timeout' = [timeout EXCEPT ![o] = 0]
    /\ devices' = [devices EXCEPT ![o] = {}]
    /\ events' = [events EXCEPT ![o] = <<>>]
    /\ cur' = [cur EXCEPT ![o] = None]
    /\ timer' = [timer EXCEPT ![o] = 0]
    /\ age' = [age EXCEPT ![o] = 0]
    /\ touched' = [touched EXCEPT ![o] = FALSE]
    /\ heldSince' = [heldSince EXCEPT ![o] = 0]
    /\ UNCHANGED passes
    /\ open' = [open EXCEPT ![o] = {}]

\* let mut devices = DeviceMap::new(); Monitor::new() returned Ok.  The
\* Monitor first reports the devices already attached.
MonitorOk(o) ==
    /\ pc[o] = "new"
    /\ \E present \in SUBSET Devices :
          events' = [events EXCEPT ![o] = Enumerate(present)]
    /\ pc' = [pc EXCEPT ![o] = "alive"]
    /\ UNCHANGED <<callerVars, kind, timeout, callback, cancelReq, age,
                   devices, todo, tried, cur, timer, sawDead, touched,
                   heldSince, passes, open, cbVars, regVars>>

\* Monitor::new() returned Err: try_or! calls callback.call(Err(e)) and
\* returns from the closure.
\* Faulty variant: the failure is delivered but the closure goes on.
MonitorFail_Continue(o) ==
    /\ pc[o] = "new"
    /\ Deliver(o, MonitorErr)
    /\ pc' = [pc EXCEPT ![o] = "alive"]
    /\ UNCHANGED <<callerVars, kind, timeout, cancelReq, age, devices, events,
                   todo, tried, cur, timer, sawDead, touched, heldSince,
                   passes, open, cbVars, regVars>>

MonitorFail(o) ==
    /\ pc[o] = "new"
    /\ Deliver(o, MonitorErr)
    /\ Exit(o)
    /\ UNCHANGED <<callerVars, cancelReq, todo, tried, sawDead, cbVars,
                   regVars>>

\* The loop was left because alive() returned false:
\*   callback.call(Err(io_err("cancelled or timed out")));
\* Faulty variant: the closure ends without the call.
LoopExit_Silent(o) ==
    /\ Exit(o)
    /\ sawDead' = [sawDead EXCEPT ![o] = DeadCause(o)]
    /\ UNCHANGED callback

LoopExit(o) ==
    /\ Deliver(o, LoopExitResult(o))
    /\ Exit(o)
    /\ sawDead' = [sawDead EXCEPT ![o] = DeadCause(o)]

\* while alive() { .. }
AliveCheck(o) ==
    /\ pc[o] = "alive"
    /\ IF Alive(o)
       THEN /\ pc' = [pc EXCEPT ![o] = "drain"]
            /\ UNCHANGED <<kind, timeout, callback, devices, events, cur,
                           timer, age, sawDead, touched, heldSince,
                           open>>
            /\ passes' = [passes EXCEPT ![o] = passes[o] + 1]
       ELSE LoopExit(o)
    /\ UNCHANGED <<callerVars, cancelReq, todo, tried, cbVars, regVars>>

\* for event in monitor.events() { devices.process_event(event); }
\* followed by the start of: for device in devices.values_mut()
Drain(o) ==
    /\ pc[o] = "drain"
    /\ devices' = [devices EXCEPT ![o] = ProcessEvents(devices[o], events[o])]
    /\ events' = [events EXCEPT ![o] = <<>>]
    /\ todo' = [todo EXCEPT ![o] = devices'[o]]
    /\ tried' = [tried EXCEPT ![o] = {}]
    /\ touched' = [touched EXCEPT ![o] = touched[o] \/ devices'[o] # {}]
    /\ heldSince' = [heldSince EXCEPT ![o] =
                        IF ~touched[o] /\ devices'[o] # {}
                        THEN passes[o] ELSE heldSince[o]]
    /\ open' = [open EXCEPT ![o] = HandlesAfter(open[o], devices[o], devices'[o])]
    /\ pc' = [pc EXCEPT ![o] = "iter"]
    /\ UNCHANGED <<callerVars, kind, timeout, callback, cancelReq, age, cur,
                   timer, sawDead, passes, cbVars, regVars>>

\* The iterator yields the next device (in no particular order) and the
\* exchange with it begins.
\* Faulty variant: the Monitor's events are drained again before each device.
NextDevice_Redrain(o, d) ==
    /\ pc[o] = "iter"
    /\ d \in todo[o]
    /\ devices' = [devices EXCEPT ![o] = ProcessEvents(devices[o], events[o])]
    /\ events' = [events EXCEPT ![o] = <<>>]
    /\ open' = [open EXCEPT ![o] = HandlesAfter(open[o], devices[o], devices'[o])]
    /\ todo' = [todo EXCEPT ![o] = todo[o] \ {d}]
    /\ cur' = [cur EXCEPT ![o] = d]
    /\ timer' = [timer EXCEPT ![o] = MaxExchange]
    /\ pc' = [pc EXCEPT ![o] = "exchange"]
    /\ UNCHANGED <<callerVars, kind, timeout, callback, cancelReq, age, tried,
                   sawDead, touched, heldSince, passes, cbVars, regVars>>

NextDevice(o, d) ==
    /\ pc[o] = "iter"
    /\ d \in todo[o]
    /\ todo' = [todo EXCEPT ![o] = todo[o] \ {d}]
    /\ cur' = [cur EXCEPT ![o] = d]
    /\ timer' = [timer EXCEPT ![o] = MaxExchange]
    /\ pc' = [pc EXCEPT ![o] = "exchange"]
    /\ UNCHANGED <<callerVars, kind, timeout, callback, cancelReq, age,
                   devices, events, tried, sawDead, touched, heldSince,
                   passes, open, cbVars, regVars>>

\* if let Ok(bytes) = u2f_register(..) { callback.call(Ok(bytes)); return; }
\* Faulty variant: the return is missing, the for loop goes on.
ExchangeOk_NoReturn(o) ==
    /\ pc[o] = "exchange"
    /\ Deliver(o, ExchangePayload(kind[o], cur[o]))
    /\ pc' = [pc EXCEPT ![o] = "iter"]
    /\ cur' = [cur EXCEPT ![o] = None]
    /\ timer' = [timer EXCEPT ![o] = 0]
    /\ UNCHANGED <<callerVars, kind, timeout, cancelReq, age, devices, events,
                   todo, tried, sawDead, touched, heldSince, passes, open,
                   cbVars, regVars>>

\* Faulty variant: alive() is looked at before the success is delivered.
ExchangeOk_CheckAlive(o) ==
    /\ pc[o] = "exchange"
    /\ IF Alive(o)
       THEN Deliver(o, ExchangePayload(kind[o], cur[o]))
       ELSE Deliver(o, LoopExitResult(o))
    /\ Exit(o)
    /\ UNCHANGED <<callerVars, cancelReq, todo, tried, sawDead, cbVars,
                   regVars>>

ExchangeOk(o) ==
    /\ pc[o] = "exchange"
    /\ Deliver(o, ExchangePayload(kind[o], cur[o]))
    /\ Exit(o)
    /\ UNCHANGED <<callerVars, cancelReq, todo, tried, sawDead, cbVars,
                   regVars>>

\* The exchange returned Err: the if let does not match, the for loop goes on.
\* Faulty variant: the device's error is delivered and ends the operation.
ExchangeErr_Propagate(o) ==
    /\ pc[o] = "exchange"
    /\ Deliver(o, DeviceErr(cur[o]))
    /\ Exit(o)
    /\ UNCHANGED <<callerVars, cancelReq, todo, tried, sawDead, cbVars,
                   regVars>>

ExchangeErr(o) ==
    /\ pc[o] = "exchange"
    /\ pc' = [pc EXCEPT ![o] = "iter"]
    /\ tried' = [tried EXCEPT ![o] = tried[o] \cup {cur[o]}]
    /\ cur' = [cur EXCEPT ![o] = None]
    /\ timer' = [timer EXCEPT ![o] = 0]
    /\ UNCHANGED <<callerVars, kind, timeout, callback, cancelReq, age,
                   devices, events, todo, sawDead, touched, heldSince,
                   passes, open, cbVars, regVars>>

\* thread::sleep(Duration::from_millis(100))
\* Faulty variant: a longer sleep.
SleepDuration_Long == 3 * RetryInterval

SleepDuration == RetryInterval

\* No device of the pass succeeded: the sleep begins.
\* Faulty variant: the for loop is left before every device was tried.
PassEnd_Early(o) ==
    /\ pc[o] = "iter"
    /\ timer' = [timer EXCEPT ![o] = SleepDuration]
    /\ pc' = [pc EXCEPT ![o] = "sleep"]
    /\ UNCHANGED <<callerVars, kind, timeout, callback, cancelReq, age,
                   devices, events, todo, tried, cur, sawDead, touched,
                   heldSince, passes, open, cbVars, regVars>>

PassEnd(o) ==
    /\ pc[o] = "iter"
    /\ todo[o] = {}
    /\ timer' = [timer EXCEPT ![o] = SleepDuration]
    /\ pc' = [pc EXCEPT ![o] = "sleep"]
    /\ UNCHANGED <<callerVars, kind, timeout, callback, cancelReq, age,
                   devices, events, todo, tried, cur, sawDead, touched,
                   heldSince, passes, open, cbVars, regVars>>

\* The sleep is over: back to while alive().
\* Faulty variant: the next pass begins without a look at alive().
Wake_SkipCheck(o) ==
    /\ pc[o] = "sleep"
    /\ timer[o] = 0
    /\ pc' = [pc EXCEPT ![o] = "drain"]
    /\ passes' = [passes EXCEPT ![o] = passes[o] + 1]
    /\ UNCHANGED <<callerVars, kind, timeout, callback, cancelReq, age,
                   devices, events, todo, tried, cur, timer, sawDead, touched,
                   heldSince, open, cbVars, regVars>>

\* Faulty variant: no retry; after the first sleep the closure gives up.
Wake_GiveUp(o) ==
    /\ pc[o] = "sleep"
    /\ timer[o] = 0
    /\ LoopExit(o)
    /\ UNCHANGED <<callerVars, cancelReq, todo, tried, cbVars, regVars>>

Wake(o) ==
    /\ pc[o] = "sleep"
    /\ timer[o] = 0
    /\ pc' = [pc EXCEPT ![o] = "alive"]
    /\ UNCHANGED <<callerVars, kind, timeout, callback, cancelReq, age,
                   devices, events, todo, tried, cur, timer, sawDead,
                   touched, heldSince, passes,
                   open, cbVars, regVars>>

\* ------------------------------------------------------------ environment
\* The Monitor learns of a hotplug event.
Hotplug(o, e) ==
    /\ pc[o] \in {"alive", "drain", "iter", "exchange", "sleep"}
    /\ Len(events[o]) < MaxQueue
    /\ events' = [events EXCEPT ![o] = Append(events[o], e)]
    /\ UNCHANGED <<callerVars, kind, timeout, callback, cancelReq, age, pc,
                   devices, todo, tried, cur, timer, sawDead, touched,
                   heldSince, passes, open, cbVars, regVars>>

\* Time passes by one Quantum: only while every running body sleeps or waits
\* for a device, and the caller is not in the middle of starting a RunLoop.
Tick ==
    /\ Running # {}
    /\ callerPc # "op_spawn"
    /\ \A o \in Running : pc[o] \in {"sleep", "exchange"} /\ timer[o] > 0
    /\ age' = [o \in Ops |->
                 IF o \in Running THEN Min(age[o] + Quantum, AgeCap) ELSE age[o]]
    /\ timer' = [o \in Ops |->
                   IF o \in Running THEN timer[o] - Quantum ELSE timer[o]]
    /\ UNCHANGED <<callerVars, kind, timeout, callback, cancelReq, pc,
                   devices,
                   events, todo, tried, cur, sawDead, touched, heldSince,
                   passes, open,
                   cbVars, regVars>>

\* ------------------------------------------------- OnceCallback, threaded
\* The results the threads of SpecCB pass to call().
CbResults == {Ok(1), Err("cancelled or timed out")}

\* A slot with its Mutex: who holds the lock, and whether it is poisoned.
NewLockedSlot ==
    [handler |-> TRUE, invoked |-> 0, received |-> NoResult,
     lock |-> None, poisoned |-> FALSE]

\* impl Clone for OnceCallback: Self { callback: self.callback.clone() },
\* an Arc clone: the new handle refers to the same slot.
CloneHandle(handles, slots, h) ==
    [handles |-> Append(handles, handles[h]), slots |-> slots]

CbClone(h) ==
    /\ Len(cbHandles) < MaxHandles
    /\ LET c == CloneHandle(cbHandles, cbSlots, h)
       IN  /\ cbHandles' = c.handles
           /\ cbSlots' = c.slots
    /\ UNCHANGED <<thPc, thSlot, thRv, cbFirst, cbReturned, mainVars,
                   regVars>>

\* A thread enters call(rv) on a handle and reaches self.callback.lock().
CbCall(t, h, rv) ==
    /\ thPc[t] = "idle"
    /\ thPc' = [thPc EXCEPT ![t] = "waiting"]
    /\ thSlot' = [thSlot EXCEPT ![t] = cbHandles[h]]
    /\ thRv' = [thRv EXCEPT ![t] = rv]
    /\ UNCHANGED <<cbSlots, cbHandles, cbFirst, cbReturned, mainVars,
                   regVars>>

\* call() returns.
CbReturn(t) ==
    /\ thPc' = [thPc EXCEPT ![t] = "idle"]
    /\ thSlot' = [thSlot EXCEPT ![t] = None]
    /\ thRv' = [thRv EXCEPT ![t] = NoResult]

\* lock() returns once no thread holds the lock: Ok(guard), or Err when the
\* Mutex is poisoned, and then call() does nothing.
CbLock(t) ==
    /\ thPc[t] = "waiting"
    /\ cbSlots[thSlot[t]].lock = None
    /\ IF cbSlots[thSlot[t]].poisoned
       THEN /\ CbReturn(t)
            /\ cbReturned' = TRUE
            /\ UNCHANGED <<cbSlots, cbFirst>>
       ELSE /\ cbSlots' = [cbSlots EXCEPT ![thSlot[t]].lock = t]
            /\ thPc' = [thPc EXCEPT ![t] = "locked"]
            /\ cbFirst' = IF cbFirst = NoResult THEN thRv[t] ELSE cbFirst
            /\ UNCHANGED <<thSlot, thRv, cbReturned>>
    /\ UNCHANGED <<cbHandles, mainVars, regVars>>

\* if let Some(cb) = cb.take() { cb.call(rv); }: the slot is emptied and the
\* handler starts, or the slot is empty and call() returns, dropping the guard.
\* Faulty variant: the guard is dropped before the handler is called.
CbTake_Unlock(t) ==
    /\ thPc[t] = "locked"
    /\ IF cbSlots[thSlot[t]].handler
       THEN /\ cbSlots' = [cbSlots EXCEPT
                             ![thSlot[t]] = [OnceCall(@, thRv[t])
                                               EXCEPT !.lock = None]]
            /\ thPc' = [thPc EXCEPT ![t] = "invoking"]
            /\ UNCHANGED <<thSlot, thRv, cbReturned>>
       ELSE /\ cbSlots' = [cbSlots EXCEPT ![thSlot[t]].lock = None]
            /\ CbReturn(t)
            /\ cbReturned' = TRUE
    /\ UNCHANGED <<cbHandles, cbFirst, mainVars, regVars>>

CbTake(t) ==
    /\ thPc[t] = "locked"
    /\ IF cbSlots[thSlot[t]].handler
       THEN /\ cbSlots' = [cbSlots EXCEPT ![thSlot[t]] = OnceCall(@, thRv[t])]
            /\ thPc' = [thPc EXCEPT ![t] = "invoking"]
            /\ UNCHANGED <<thSlot, thRv, cbReturned>>
       ELSE /\ cbSlots' = [cbSlots EXCEPT ![thSlot[t]].lock = None]
            /\ CbReturn(t)
            /\ cbReturned' = TRUE
    /\ UNCHANGED <<cbHandles, cbFirst, mainVars, regVars>>

\* The handler returns: the guard is dropped, call() returns.
CbHandlerReturn(t) ==
    /\ thPc[t] = "invoking"
    /\ cbSlots' = [cbSlots EXCEPT ![thSlot[t]].lock = None]
    /\ CbReturn(t)
    /\ cbReturned' = TRUE
    /\ UNCHANGED <<cbHandles, cbFirst, mainVars, regVars>>

\* The handler panics: unwinding drops the guard and poisons the Mutex.
CbHandlerPanic(t) ==
    /\ thPc[t] = "invoking"
    /\ cbSlots' = [cbSlots EXCEPT ![thSlot[t]].lock = None,
                                  ![thSlot[t]].poisoned = TRUE]
    /\ CbReturn(t)
    /\ UNCHANGED <<cbHandles, cbFirst, cbReturned, mainVars, regVars>>

\* The handler itself calls call() on a handle to its own slot and reaches
\* self.callback.lock(): the Mutex is held by this very thread.
CbReenter(t) ==
    /\ thPc[t] = "invoking"
    /\ thPc' = [thPc EXCEPT ![t] = "relock"]
    /\ UNCHANGED <<cbSlots, cbHandles, thSlot, thRv, cbFirst, cbReturned,
                   mainVars, regVars>>

\* Locking a Mutex the thread already holds never returns: it blocks for
\* ever (no step) or it panics, and then unwinding drops the guard held by
\* the outer call() and poisons the Mutex.
CbRelockPanic(t) ==
    /\ thPc[t] = "relock"
    /\ cbSlots' = [cbSlots EXCEPT ![thSlot[t]].lock = None,
                                  ![thSlot[t]].poisoned = TRUE]
    /\ CbReturn(t)
    /\ UNCHANGED <<cbHandles, cbFirst, cbReturned, mainVars, regVars>>

\* ------------------------------------------------- DeviceMap, with handles
\* DeviceMap::new(): no identity, no Device; no handle was opened.  `dev'
\* gives the handle of the Device stored under an identity; `handles' lists,
\* for every handle ever opened, its identity and how often it was released.
NewRegistry ==
    [ids |-> {}, dev |-> [x \in Devices |-> None], handles |-> <<>>]

\* A Device for x is opened and stored under x.
RegOpen(r, x) ==
    [r EXCEPT !.dev[x] = Len(r.handles) + 1,
              !.handles = Append(r.handles, [id |-> x, released |-> 0])]

\* The Device stored under x is taken out of the map and dropped: its handle
\* is released.
\* Faulty variant: the Device is taken out of the map, its handle stays open.
RegClose_Leak(r, x) ==
    [r EXCEPT !.dev[x] = None]

RegClose(r, x) ==
    [r EXCEPT !.dev[x] = None,
              !.handles[r.dev[x]].released = @ + 1]

\* DeviceMap::process_event at the level of handles.  The identities follow
\* process_event.  An Add for an identity whose entry is stale replaces the
\* entry; an Add for an identity that is present otherwise and a Remove for
\* an absent identity change nothing.
RegistryEvent(r, e, stale) ==
    LET r1 == [r EXCEPT !.ids = process_event(r.ids, e)]
    IN  IF e.op = "Add"
        THEN IF r.dev[e.id] = None THEN RegOpen(r1, e.id)
             ELSE IF stale THEN RegOpen(RegClose(r1, e.id), e.id)
             ELSE r1
        ELSE IF r.dev[e.id] # None THEN RegClose(r1, e.id) ELSE r1

\* The DeviceMap is dropped: every Device still in the map is dropped.
\* Faulty variant: every handle ever opened is released on the drop.
RegistryDrop_All(r) ==
    [ids |-> {},
     dev |-> [x \in Devices |-> None],
     handles |-> [h \in DOMAIN r.handles |->
                    [r.handles[h] EXCEPT !.released = @ + 1]]]

RegistryDrop(r) ==
    [ids |-> {},
     dev |-> [x \in Devices |-> None],
     handles |-> [h \in DOMAIN r.handles |->
                    IF \E x \in Devices : r.dev[x] = h
                    THEN [r.handles[h] EXCEPT !.released = @ + 1]
                    ELSE r.handles[h]]]

\* devices.process_event(event) for one drained event.
RegProcess(e, stale) ==
    /\ regLive
    /\ Len(RegistryEvent(registry, e, stale).handles) <= MaxOpened
    /\ registry' = RegistryEvent(registry, e, stale)
    /\ regLast' = [regLast EXCEPT ![e.id] = e.op]
    /\ UNCHANGED <<regLive, mainVars, cbVars>>

\* The body owning the DeviceMap exits.
RegExit ==
    /\ regLive
    /\ registry' = RegistryDrop(registry)
    /\ regLive' = FALSE
    /\ UNCHANGED <<regLast, mainVars, cbVars>>

\* ---------------------------------------------------------- specifications
\* PlatformManager::new() (thread: None), no operation started; one
\* OnceCallback::new(handler) with a single handle, no call() made.
Init ==
    /\ thread = None
    /\ callerPc = "idle"
    /\ joining = None
    /\ wasRunning = FALSE
    /\ nOps = 0
    /\ kind = [o \in Ops |-> "none"]
    /\ timeout = [o \in Ops |-> 0]
    /\ callback = [o \in Ops |-> NewSlot]
    /\ cancelReq = [o \in Ops |-> FALSE]
    /\ age = [o \in Ops |-> 0]
    /\ pc = [o \in Ops |-> "none"]
    /\ devices = [o \in Ops |-> {}]
    /\ events = [o \in Ops |-> <<>>]
    /\ todo = [o \in Ops |-> {}]
    /\ tried = [o \in Ops |-> {}]
    /\ cur = [o \in Ops |-> None]
    /\ timer = [o \in Ops |-> 0]
    /\ sawDead = [o \in Ops |-> "no"]
    /\ touched = [o \in Ops |-> FALSE]
    /\ heldSince = [o \in Ops |-> 0]
    /\ passes = [o \in Ops |-> 0]
    /\ open = [o \in Ops |-> {}]
    /\ cbSlots = <<NewLockedSlot>>
    /\ cbHandles = <<1>>
    /\ thPc = [t \in Threads |-> "idle"]
    /\ thSlot = [t \in Threads |-> None]
    /\ thRv = [t \in Threads |-> NoResult]
    /\ cbFirst = NoResult
    /\ cbReturned = FALSE
    /\ registry = NewRegistry
    /\ regLive = TRUE
    /\ regLast = [x \in Devices |-> "none"]

BodyStep(o) ==
    \/ MonitorOk(o)
    \/ MonitorFail(o)
    \/ AliveCheck(o)
    \/ Drain(o)
    \/ \E d \in Devices : NextDevice(o, d)
    \/ ExchangeOk(o)
    \/ ExchangeErr(o)
    \/ PassEnd(o)
    \/ Wake(o)

CallerStep ==
    \/ \E t \in Timeouts : Register(t)
    \/ \E t \in Timeouts : Sign(t)
    \/ \E t \in Timeouts : SendApdu(t)
    \/ OpJoined
    \/ SpawnOk
    \/ SpawnFail
    \/ Cancel
    \/ CancelReturn

Next ==
    \/ CallerStep
    \/ \E o \in Ops : BodyStep(o)
    \/ \E o \in Ops, e \in Events : Hotplug(o, e)
    \/ Tick

Spec == Init /\ [][Next]_vars

NextCB ==
    \/ \E h \in 1..Len(cbHandles) : CbClone(h)
    \/ \E t \in Threads, h \in 1..Len(cbHandles), rv \in CbResults : CbCall(t, h, rv)
    \/ \E t \in Threads : CbLock(t)
    \/ \E t \in Threads : CbTake(t)
    \/ \E t \in Threads : CbHandlerReturn(t)
    \/ \E t \in Threads : CbHandlerPanic(t)
    \/ \E t \in Threads : CbReenter(t)
    \/ \E t \in Threads : CbRelockPanic(t)

SpecCB == Init /\ [][NextCB]_vars

NextReg ==
    \/ \E e \in Events, stale \in BOOLEAN : RegProcess(e, stale)
    \/ RegExit

SpecReg == Init /\ [][NextReg]_vars

\* The end-to-end scenario: one register with EndToEndTimeout against a
\* Monitor that at once reports one device, whose every exchange fails; no
\* hotplug event follows and the caller does not cancel.
E2ERegister ==
    /\ nOps = 0
    /\ Register(EndToEndTimeout)

E2EMonitor(o) ==
    /\ MonitorOk(o)
    /\ \E d \in Devices : events'[o] = Enumerate({d})

E2EBodyStep(o) ==
    \/ E2EMonitor(o)
    \/ AliveCheck(o)
    \/ Drain(o)
    \/ \E d \in Devices : NextDevice(o, d)
    \/ ExchangeErr(o)
    \/ PassEnd(o)
    \/ Wake(o)

NextE2E ==
    \/ E2ERegister
    \/ SpawnOk
    \/ \E o \in Ops : E2EBodyStep(o)
    \/ Tick

SpecE2E == Init /\ [][NextE2E]_vars

FairSpecE2E ==
    /\ SpecE2E
    /\ \A o \in Ops : WF_vars(E2EBodyStep(o))
    /\ WF_vars(Tick)
    /\ WF_vars(SpawnOk)

\* One operation whose window is open for several retry passes, with devices
\* plugged in and out meanwhile.
SwapTimeout == 2 * RetryInterval + Quantum

SwapStart ==
    /\ nOps = 0
    /\ \E k \in Kinds : StartOp(k, SwapTimeout)

NextSwap ==
    \/ SwapStart
    \/ SpawnOk
    \/ Cancel
    \/ CancelReturn
    \/ \E o \in Ops : BodyStep(o)
    \/ \E o \in Ops, e \in Events : Hotplug(o, e)
    \/ Tick

SpecSwap == Init /\ [][NextSwap]_vars

\* The same, and the operation may be superseded by another one.
SwapAgain ==
    /\ nOps >= 1
    /\ StartOp("register", SwapTimeout)

NextSwapTwo ==
    \/ NextSwap
    \/ SwapAgain
    \/ OpJoined

SpecSwapTwo == Init /\ [][NextSwapTwo]_vars

\* The scheduler runs every thread that can take a step, time passes, and a
\* device exchange ends.
Fairness ==
    /\ \A o \in Ops : WF_vars(BodyStep(o))
    /\ WF_vars(Tick)
    /\ WF_vars(OpJoined)
    /\ WF_vars(SpawnOk \/ SpawnFail)
    /\ WF_vars(CancelReturn)

FairSpec == Spec /\ Fairness

\* ------------------------------------------------------------------ claims
\* How often the wrapped handler ran, over every slot a handle refers to.
RECURSIVE SumInvoked(_)
SumInvoked(slots) ==
    IF slots = <<>> THEN 0 ELSE Head(slots).invoked + SumInvoked(Tail(slots))

\* C1: whatever the interleaving of call() on handles cloned from one
\* OnceCallback, the handler never runs twice; once any call() has returned
\* it has run exactly once; and the result it got is the one passed by the
\* first call() that acquired the lock.
C1_ExactlyOnce ==
    /\ SumInvoked(cbSlots) <= 1
    /\ cbReturned => SumInvoked(cbSlots) = 1
    /\ \A i \in 1..Len(cbSlots) :
          cbSlots[i].invoked > 0 => cbSlots[i].received = cbFirst

\* A second call(), through a cloned handle and with another result, holds
\* the lock after the handler has run: it is about to do nothing.
C1_Witness ==
    /\ Len(cbHandles) = 2
    /\ cbReturned
    /\ SumInvoked(cbSlots) = 1
    /\ \E t \in Threads : thPc[t] = "locked" /\ thRv[t] # cbFirst

\* C2: every register, sign or send_apdu leads to exactly one invocation of
\* the caller's handler: never more than one, and eventually one, whichever
\* way the operation ends.
C2_ExactlyOnce ==
    /\ [](\A o \in Ops : callback[o].invoked <= 1)
    /\ \A o \in Ops : (nOps >= o) ~> (callback[o].invoked = 1)

\* cancel() raced with a device exchange that succeeded: the body was running
\* when cancellation was requested, and has exited having delivered a success,
\* once.
C2_Witness ==
    /\ callerPc = "cancel_join"
    /\ joining = 1
    /\ wasRunning
    /\ pc[1] = "exited"
    /\ callback[1].invoked = 1
    /\ callback[1].received.ok

\* The result the loop's exit delivers.
CancelledOrTimedOut == Err("cancelled or timed out")

\* At most one body runs, and a body has begun only when every earlier one
\* has exited.
OneBodyAtATime ==
    /\ Cardinality(Running) <= 1
    /\ \A b \in Ops : pc[b] # "none" =>
          \A a \in 1..(b - 1) : pc[a] \in {"none", "exited"}

\* C3 as stated: single-flight, and when operation B is started while A's
\* body is running, A's body has seen alive() false and has exited by the
\* time self.cancel() returns in B, before B's RunLoop is constructed.
C3_Original ==
    /\ OneBodyAtATime
    /\ (callerPc = "op_spawn" /\ joining # None /\ wasRunning) =>
          (pc[joining] = "exited" /\ sawDead[joining] # "no")

\* C3, amended: single-flight, and when operation B is started while A's
\* body is running, A's body has exited before B's RunLoop is constructed:
\* after it saw alive() false, or after it delivered a device's success or
\* the Monitor's failure without another look at alive().
C3_SingleFlight ==
    /\ OneBodyAtATime
    /\ (callerPc = "op_spawn" /\ joining # None) => pc[joining] = "exited"
    /\ (callerPc = "op_spawn" /\ joining # None /\ wasRunning) =>
          \/ sawDead[joining] # "no"
          \/ callback[joining].received.ok
          \/ callback[joining].received = MonitorErr

\* Operation 2 was started while the body of operation 1 was running; that
\* body saw alive() false by the cancellation alone and has exited, and the
\* RunLoop of operation 2 is about to be constructed.
C3_Witness ==
    /\ callerPc = "op_spawn"
    /\ nOps = 2
    /\ joining = 1
    /\ wasRunning
    /\ pc[1] = "exited"
    /\ sawDead[1] = "cancel"
    /\ pc[2] = "none"

\* C4: cancel() returns only once the body of the RunLoop it took has
\* exited, and a body that has exited invokes no Callback and touches no
\* DeviceMap or Monitor any more.
C4_CancelJoin ==
    [][/\ (callerPc = "cancel_join" /\ callerPc' = "idle") =>
              pc[joining] = "exited"
       /\ \A o \in Ops : pc[o] = "exited" =>
              /\ pc'[o] = "exited"
              /\ callback'[o] = callback[o]
              /\ devices'[o] = devices[o]
              /\ events'[o] = events[o]]_vars

\* cancel() has returned for a body that was in its loop: the body has seen
\* the cancellation and exited, and the manager holds no RunLoop.
C4_Witness ==
    /\ callerPc = "idle"
    /\ nOps = 1
    /\ thread = None
    /\ cancelReq[1]
    /\ pc[1] = "exited"
    /\ sawDead[1] = "cancel"
    /\ callback[1].received = CancelledOrTimedOut

\* C5: a success is delivered only by the step that ends an exchange, it is
\* the payload of the device exchanged with, and with it the body exits: the
\* devices of the pass not yet reached stay unreached, and an exited body
\* starts no exchange, pass or sleep.
C5_FirstSuccessWins ==
    [][\A o \in Ops :
          /\ (callback'[o] # callback[o] /\ callback'[o].received.ok) =>
                /\ pc[o] = "exchange"
                /\ callback'[o].received = ExchangePayload(kind[o], cur[o])
                /\ pc'[o] = "exited"
                /\ todo'[o] = todo[o]
                /\ tried'[o] = tried[o]
          /\ pc[o] = "exited" =>
                /\ pc'[o] = "exited"
                /\ todo'[o] = todo[o]
                /\ tried'[o] = tried[o]
                /\ callback'[o] = callback[o]]_vars

\* Registry {1, 2, 3}: device 1 failed, device 2 succeeded and its payload
\* was delivered, device 3 was never reached.
C5_Witness ==
    \E o \in Ops :
        /\ pc[o] = "exited"
        /\ tried[o] = {1}
        /\ callback[o].received = Ok(2)
        /\ callback[o].invoked = 1
        /\ todo[o] = {3}

\* C6: the handler only ever gets a success, the RunLoop's or the Monitor's
\* construction failure, or the cancelled-or-timed-out failure; and the step
\* that ends an exchange without a success delivers nothing and goes on with
\* the pass.
C6_DeviceFailureAbsorbed ==
    /\ [](\A o \in Ops :
             \/ callback[o].received.ok
             \/ callback[o].received \in
                   {NoResult, MonitorErr, CancelledOrTimedOut,
                    Err("couldn't create runloop")})
    /\ [][\A o \in Ops :
             (pc[o] = "exchange" /\ pc'[o] # "exchange"
                 /\ ~callback'[o].received.ok) =>
                /\ pc'[o] = "iter"
                /\ callback'[o] = callback[o]
                /\ devices'[o] = devices[o]
                /\ todo'[o] = todo[o]]_vars

\* Device 1 has failed and nothing was delivered; the body is exchanging
\* with the next device of the pass.
C6_Witness ==
    \E o \in Ops :
        /\ pc[o] = "exchange"
        /\ tried[o] = {1}
        /\ cur[o] = 2
        /\ callback[o].invoked = 0

\* C7: the Monitor's failure is delivered by the body's first step, which is
\* also its last; nothing was drained, no exchange tried, no pass or sleep
\* done, and the cancelled-or-timed-out failure never replaces it.
C7_MonitorFailure ==
    /\ [](\A o \in Ops : callback[o].received = MonitorErr =>
             /\ pc[o] = "exited"
             /\ callback[o].invoked = 1
             /\ sawDead[o] = "no"
             /\ devices[o] = {} /\ events[o] = <<>>
             /\ todo[o] = {} /\ tried[o] = {})
    /\ [][\A o \in Ops :
             /\ (callback'[o] # callback[o]
                   /\ callback'[o].received = MonitorErr) =>
                   (pc[o] = "new" /\ pc'[o] = "exited")
             /\ callback[o].received = MonitorErr =>
                   callback'[o] = callback[o]]_vars

\* The Monitor of operation 1 could not be constructed; its RunLoop was
\* cancelled afterwards.
C7_Witness ==
    /\ callback[1].received = MonitorErr
    /\ pc[1] = "exited"
    /\ cancelReq[1]

\* C8: when an operation call has returned and its body never ran, the
\* RunLoop's construction failure has been delivered, once, the manager
\* holds no RunLoop, no body runs, and cancel() would change nothing.
C8_RunLoopFailure ==
    /\ (callerPc = "idle" /\ nOps >= 1 /\ pc[nOps] = "none") =>
          /\ callback[nOps].invoked = 1
          /\ callback[nOps].received = Err("couldn't create runloop")
          /\ thread = None
          /\ Running = {}
          /\ ~ENABLED <<Cancel>>_vars
    /\ \A o \in Ops : callback[o].received = Err("couldn't create runloop") =>
          pc[o] = "none"

\* Operation 2 was started while operation 1 was running; operation 1 was
\* cancelled and joined, then the RunLoop of operation 2 could not be
\* constructed.
C8_Witness ==
    /\ callerPc = "idle"
    /\ nOps = 2
    /\ pc[2] = "none"
    /\ callback[2].received = Err("couldn't create runloop")
    /\ sawDead[1] = "cancel"
    /\ pc[1] = "exited"

\* C9: whatever made alive() false (cancellation, the deadline, both), the
\* handler got the same value, and it gets that value in no other way.
C9_SameFailure ==
    \A o \in Ops :
        /\ sawDead[o] # "no" =>
              /\ callback[o].received = CancelledOrTimedOut
              /\ callback[o].invoked = 1
        /\ callback[o].received = CancelledOrTimedOut => sawDead[o] # "no"

\* One operation ended by cancellation alone, the other by its deadline
\* alone; both delivered the same value.
C9_Witness ==
    \E a, b \in Ops :
        /\ sawDead[a] = "cancel"
        /\ sawDead[b] = "deadline"
        /\ callback[a].received = callback[b].received
        /\ callback[a].received = CancelledOrTimedOut

\* C10: a body whose DeviceMap never held a device and whose RunLoop was not
\* cancelled delivers the cancelled-or-timed-out failure no earlier than
\* timeout after the RunLoop's start and no later than timeout + the retry
\* interval + one worst-case exchange.
C10_RetryPersistence ==
    [][\A o \in Ops :
          (pc[o] = "alive" /\ pc'[o] = "exited" /\ ~touched[o]
              /\ ~cancelReq[o]) =>
             /\ callback'[o].received = CancelledOrTimedOut
             /\ age[o] >= timeout[o]
             /\ age[o] <= timeout[o] + RetryInterval + MaxExchange]_vars

\* The deadline has passed during a sleep of a body without devices: the
\* failure is delivered by its next step, later than timeout.
C10_Witness ==
    \E o \in Ops :
        /\ pc[o] = "alive"
        /\ ~touched[o]
        /\ ~cancelReq[o]
        /\ timeout[o] = Quantum
        /\ age[o] = RetryInterval

\* C11: register with timeout 500 ms against one device that fails every
\* attempt: the handler is invoked exactly once, with the cancelled-or-timed-
\* out failure, and by then retry passes have begun that cover the timeout
\* (each lasts at most the sleep and one exchange); at least 4 of them when
\* the exchanges took no more than one retry interval in all, that is when
\* the passes were about 100 ms apart.
C11_EndToEnd ==
    /\ [](callback[1].invoked <= 1)
    /\ (nOps = 1) ~> (callback[1].invoked = 1
                        /\ callback[1].received = CancelledOrTimedOut)
    /\ [][callback'[1] # callback[1] =>
             /\ callback'[1].received = CancelledOrTimedOut
             /\ passes[1] * (RetryInterval + MaxExchange) >= timeout[1]
             /\ age[1] - passes[1] * RetryInterval <= RetryInterval =>
                   passes[1] >= 4]_vars

\* The failure has been delivered after five passes, 100 ms apart, over the
\* one device, which failed in the last pass as well.
C11_Witness ==
    /\ pc[1] = "exited"
    /\ callback[1].invoked = 1
    /\ callback[1].received = CancelledOrTimedOut
    /\ sawDead[1] = "deadline"
    /\ passes[1] = 5
    /\ tried[1] = {1}

\* C12: once the last event processed for an identity is a Remove, the
\* identity is not in the DeviceMap and every handle opened for it has been
\* released exactly once; no handle is ever released twice, and once the
\* body has exited every handle has been released exactly once.
C12_HotplugConvergence ==
    /\ \A h \in DOMAIN registry.handles : registry.handles[h].released <= 1
    /\ \A x \in Devices : regLast[x] = "Remove" =>
          /\ x \notin registry.ids
          /\ registry.dev[x] = None
          /\ \A h \in DOMAIN registry.handles :
                registry.handles[h].id = x => registry.handles[h].released = 1
    /\ ~regLive =>
          \A h \in DOMAIN registry.handles : registry.handles[h].released = 1

\* Add for identity 1, then Remove for it, then the body exited while another
\* Device was still held: the handle opened for identity 1 was released once.
C12_Witness ==
    /\ ~regLive
    /\ regLast[1] = "Remove"
    /\ Len(registry.handles) = 2
    /\ registry.handles[1] = [id |-> 1, released |-> 1]
    /\ registry.handles[2] = [id |-> 2, released |-> 1]

\* The time a body can still take before it looks at alive() again: the
\* rest of the exchange under way, a worst-case exchange with each device of
\* the pass not yet reached, and the sleep.
Remaining(o) ==
    CASE pc[o] = "drain" -> NumDevices * MaxExchange + SleepDuration
      [] pc[o] = "iter" -> Cardinality(todo[o]) * MaxExchange + SleepDuration
      [] pc[o] = "exchange" ->
            timer[o] + Cardinality(todo[o]) * MaxExchange + SleepDuration
      [] pc[o] = "sleep" -> timer[o]
      [] OTHER -> 0

\* C13 as stated: once cancellation has been requested the body finishes at
\* most the exchange under way: it begins no exchange, and what it can still
\* take is at most one worst-case exchange.
C13_Original ==
    [][\A o \in Ops : cancelReq[o] =>
          /\ ~(pc[o] = "iter" /\ pc'[o] = "exchange")
          /\ Remaining(o) <= MaxExchange]_vars

\* C13, amended: once cancellation has been requested the body begins no new
\* retry pass; it finishes the pass under way (the exchange under way, the
\* exchanges with the devices of the pass not yet reached, unless one
\* succeeds, and the sleep), so that the join is delayed by at most one
\* worst-case exchange per device of the DeviceMap plus the retry interval:
\* the time the body can still take never exceeds that bound and, after the
\* request, shrinks by the time that passes.
C13_CancelLatency ==
    /\ [](\A o \in Ops :
             Remaining(o) <= NumDevices * MaxExchange + RetryInterval)
    /\ [][\A o \in Ops : (cancelReq[o] /\ o \in Running) =>
             /\ passes'[o] = passes[o]
             /\ pc[o] = "alive" => pc'[o] \in {"alive", "exited"}
             /\ pc'[o] # "exited" =>
                   Remaining(o)' + (age'[o] - age[o]) <= Remaining(o)]_vars

\* cancel() is blocked in its join; the body is exchanging with the last
\* device of its pass after two others failed, and will sleep afterwards.
C13_Witness ==
    /\ callerPc = "cancel_join"
    /\ cancelReq[joining]
    /\ pc[joining] = "exchange"
    /\ Cardinality(tried[joining]) = 2
    /\ todo[joining] = {}
    /\ Remaining(joining) > MaxExchange

\* The last event for identity x in a sequence of events, "none" without one.
RECURSIVE LastOp(_, _)
LastOp(es, x) ==
    IF es = <<>> THEN "none"
    ELSE IF es[Len(es)].id = x THEN es[Len(es)].op
    ELSE LastOp(SubSeq(es, 1, Len(es) - 1), x)

\* C14: a pass begins with the one drain of all pending events, before any
\* exchange; the DeviceMap changes in no other step of the body, so it is
\* the same from the first to the last exchange of the pass; an exchange is
\* begun only with a device of the DeviceMap; and the drain leaves out every
\* identity whose last event is a Remove, takes in every one whose last event
\* is an Add, and keeps the others as they were: a removed device is not
\* tried again before an Add for it is drained.
C14_DrainOncePerPass ==
    [][\A o \in Ops :
          /\ (pc'[o] = "drain" /\ pc[o] # "drain") =>
                (pc[o] = "alive" /\ passes'[o] = passes[o] + 1)
          /\ passes'[o] # passes[o] => pc'[o] = "drain"
          /\ (pc[o] = "drain" /\ pc'[o] # "drain") =>
                /\ pc'[o] = "iter"
                /\ events'[o] = <<>>
                /\ devices'[o] = ProcessEvents(devices[o], events[o])
                /\ todo'[o] = devices'[o]
                /\ \A x \in Devices :
                      CASE LastOp(events[o], x) = "Remove" ->
                              x \notin devices'[o]
                        [] LastOp(events[o], x) = "Add" -> x \in devices'[o]
                        [] OTHER -> (x \in devices'[o]) = (x \in devices[o])
          /\ (devices'[o] # devices[o] /\ pc'[o] # "exited") => pc[o] = "drain"
          /\ (Len(events'[o]) < Len(events[o]) /\ pc'[o] # "exited") =>
                pc[o] = "drain"
          /\ (pc'[o] = "exchange" /\ pc[o] # "exchange") =>
                /\ pc[o] = "iter"
                /\ cur'[o] \in devices[o]
                /\ cur'[o] \in todo[o]
                /\ todo'[o] = todo[o] \ {cur'[o]}]_vars

\* The second pass of a body whose DeviceMap held a device in the first: the
\* device's Remove was drained, no exchange was tried in this pass, and an
\* Add that came in since the drain waits for the next pass.
C14_Witness ==
    \E o \in Ops :
        /\ passes[o] = 2
        /\ pc[o] = "sleep"
        /\ touched[o]
        /\ devices[o] = {}
        /\ tried[o] = {}
        /\ events[o] # <<>>
        /\ events[o][1].op = "Add"

C16_HandleInvariant ==
    /\ [](\A o \in Ops :
             /\ devices[o] \subseteq open[o]
             /\ o \notin Running => (devices[o] = {} /\ open[o] = {})
             /\ \A b \in Ops \ {o} : open[o] \cap open[b] = {})
    /\ [][\A o \in Ops : \A x \in open[o] \ open'[o] :
             x \notin devices'[o]]_vars

\* Operation 1 ended in its second pass with the success of device 2 while
\* it also held device 1; all its handles are closed.  Operation 2, in its
\* second pass, holds device 1 alone, with its handle open.
C16_Witness ==
    /\ pc[1] = "exited"
    /\ passes[1] = 2
    /\ callback[1].received = Ok(2)
    /\ tried[1] = {1}
    /\ open[1] = {}
    /\ passes[2] = 2
    /\ pc[2] = "exchange"
    /\ touched[2]
    /\ open[2] = {1}
    /\ devices[2] = {1}

\* C17: the drain that begins a pass takes into the DeviceMap every identity
\* whose Add is pending and not followed by a Remove; a pass ends without a
\* success only when every device of the DeviceMap has been tried; the sleep
\* that follows lasts no longer than the retry interval; and from the end of
\* the sleep to the next drain (if alive() is still true) no time passes.
C17_PickedUpNextPass ==
    /\ [](\A o \in Ops :
             /\ pc[o] = "sleep" => timer[o] \in 0..RetryInterval
             /\ pc[o] = "iter" => devices[o] = todo[o] \cup tried[o]
             /\ pc[o] = "exchange" =>
                   devices[o] = todo[o] \cup tried[o] \cup {cur[o]})
    /\ [][\A o \in Ops :
             /\ (pc[o] = "drain" /\ pc'[o] # "drain") =>
                   \A x \in Devices : LastOp(events[o], x) = "Add" =>
                      (x \in devices'[o] /\ x \in todo'[o])
             /\ (pc'[o] = "sleep" /\ pc[o] # "sleep") =>
                   /\ pc[o] = "iter"
                   /\ tried[o] = devices[o]
                   /\ timer'[o] <= RetryInterval
             /\ (pc[o] = "sleep" /\ pc'[o] # "sleep") =>
                   (timer[o] = 0 /\ pc'[o] = "alive")
             /\ (pc[o] = "sleep" /\ pc'[o] = "sleep") =>
                   age'[o] - age[o] = timer[o] - timer'[o]
             /\ (pc[o] = "alive" /\ pc'[o] # "alive") =>
                   /\ Alive(o) => pc'[o] = "drain"
                   /\ ~Alive(o) => pc'[o] = "exited"
             /\ (pc[o] \in {"alive", "drain", "iter"} /\ pc'[o] # "exited") =>
                   age'[o] = age[o]]_vars

\* The DeviceMap was empty in the first pass; device 1 was plugged in
\* meanwhile and its exchange is under way in the second pass, which began
\* one retry interval after the RunLoop's start.
C17_Witness ==
    \E o \in Ops :
        /\ passes[o] = 2
        /\ heldSince[o] = 2
        /\ pc[o] = "exchange"
        /\ cur[o] = 1
        /\ age[o] = RetryInterval

\* C18: the handler runs while its thread holds the slot's lock; meanwhile
\* no other call() on the slot is past lock(), a call() gets past lock() only
\* when no thread holds the lock, and one that finds the slot empty returns
\* without invoking anything; a handler that calls call() on its own slot
\* never returns: its thread stays in lock() for ever unless lock() panics.
C18_HandlerUnderLock ==
    /\ [](\A t \in Threads :
             thPc[t] \in {"invoking", "relock"} =>
                /\ cbSlots[thSlot[t]].lock = t
                /\ \A u \in Threads \ {t} :
                      thSlot[u] = thSlot[t] => thPc[u] = "waiting")
    /\ [][\A t \in Threads :
             /\ (thPc[t] = "waiting" /\ thPc'[t] # "waiting") =>
                   cbSlots[thSlot[t]].lock = None
             /\ (thPc[t] = "locked" /\ ~cbSlots[thSlot[t]].handler) =>
                   /\ thPc'[t] \in {"locked", "idle"}
                   /\ cbSlots'[thSlot[t]].invoked = cbSlots[thSlot[t]].invoked
                   /\ cbSlots'[thSlot[t]].received
                         = cbSlots[thSlot[t]].received
             /\ thPc[t] = "relock" =>
                   \/ thPc'[t] = "relock"
                   \/ /\ thPc'[t] = "idle"
                      /\ cbSlots'[thSlot[t]].poisoned
                      /\ cbReturned' = cbReturned]_vars

\* The handler, run by thread 1, has called call() on its own slot and is in
\* lock(); thread 2 is blocked in lock() on the same slot.
C18_Witness ==
    /\ thPc[1] = "relock"
    /\ thPc[2] = "waiting"
    /\ thSlot[2] = thSlot[1]
    /\ cbSlots[thSlot[1]].lock = 1
    /\ cbSlots[thSlot[1]].invoked = 1

\* The handler of every operation started before b has been invoked and its
\* body is not running, once the body of b exists; deliveries follow the
\* order in which the operations were started.
DeliveredInOrder ==
    /\ (callerPc = "op_spawn" /\ joining # None /\ wasRunning) =>
          callback[joining].invoked = 1
    /\ \A b \in Ops : \A a \in 1..(b - 1) :
          /\ pc[b] # "none" => (callback[a].invoked = 1 /\ a \notin Running)
          /\ callback[b].invoked = 1 => callback[a].invoked = 1

\* C19 as stated: when B is started while A runs, A's handler has been
\* invoked, with a success payload or the cancelled-or-timed-out failure,
\* before B's RunLoop is constructed, and deliveries are in order.
C19_Original ==
    /\ DeliveredInOrder
    /\ (callerPc = "op_spawn" /\ joining # None /\ wasRunning) =>
          \/ callback[joining].received.ok
          \/ callback[joining].received = CancelledOrTimedOut

\* C19, amended: the same, and what A's handler got may also be the failure
\* of A's Monitor, when B was started before A's body had constructed it.
C19_SupersessionOrder ==
    /\ DeliveredInOrder
    /\ (callerPc = "op_spawn" /\ joining # None /\ wasRunning) =>
          \/ callback[joining].received.ok
          \/ callback[joining].received = CancelledOrTimedOut
          \/ callback[joining].received = MonitorErr

\* Operation 2 superseded operation 1 while it ran: operation 1 delivered the
\* cancelled-or-timed-out failure on the cancellation alone, operation 2 has
\* run since and delivered a success.
C19_Witness ==
    /\ nOps = 2
    /\ pc[1] = "exited"
    /\ sawDead[1] = "cancel"
    /\ callback[1].received = CancelledOrTimedOut
    /\ callback[1].invoked = 1
    /\ pc[2] = "exited"
    /\ callback[2].received.ok
    /\ callback[2].invoked = 1

\* C20: the body learns that alive() is false only at the head of a pass;
\* an exchange that ends the body delivers its device's success whatever
\* alive() would say; between the devices of a pass and in the drain the
\* body does not exit; and the cancelled-or-timed-out failure is delivered
\* only at the head of a pass, with alive() false, when every device of the
\* pass before was tried in vain.
C20_AliveOnlyAtHead ==
    [][\A o \in Ops :
          /\ sawDead'[o] # sawDead[o] => (pc[o] = "alive" /\ ~Alive(o))
          /\ (pc[o] = "exchange" /\ pc'[o] = "exited") =>
                /\ callback'[o].received = ExchangePayload(kind[o], cur[o])
                /\ callback'[o].invoked = 1
                /\ sawDead'[o] = "no"
          /\ pc[o] \in {"drain", "iter", "sleep"} => pc'[o] # "exited"
          /\ (callback'[o] # callback[o]
                /\ callback'[o].received = CancelledOrTimedOut) =>
                /\ pc[o] = "alive"
                /\ ~Alive(o)
                /\ tried[o] = devices[o]]_vars

\* Operation 1 was superseded while its body ran: cancellation was requested
\* during its pass, device 1 had failed, and yet the success of device 2 was
\* delivered.
C20_Witness ==
    /\ callerPc = "op_join"
    /\ joining = 1
    /\ wasRunning
    /\ cancelReq[1]
    /\ pc[1] = "exited"
    /\ sawDead[1] = "no"
    /\ tried[1] = {1}
    /\ callback[1].received = Ok(2)

=============================================================================
